---- MODULE Spec2Model ----
(***************************************************************************)
(* A model of WebGPURenderer (solid-webgpu): the identity-keyed resource   *)
(* cache, the visibility/ordering pass (sort) and the per-frame pass       *)
(* assembly (render, _updatePipeline).                                     *)
(*                                                                         *)
(* Descriptors (nodes, materials, uniforms, geometries) are CPU-side       *)
(* objects named by small integers; a GPU object is named by an id that    *)
(* is fresh among the ids the renderer still refers to.                    *)
(***************************************************************************)
EXTENDS Integers, Sequences, FiniteSets, TLC

VARIABLES
  nodes,        \* scene graph: node id -> Object3D / Mesh record; node 1 is the scene
  camera,       \* the camera handed to sort / render, or NoCamera
  materials,    \* material id -> Material record
  uniformLists, \* uniform list id -> the material's `uniforms` array (uniform ids)
  uniforms,     \* uniform id -> Uniform record (buffer | texture | sampler)
  geometries,   \* geometry id -> Geometry record
  renderer,     \* the WebGPURenderer's fields, its cache map included
  device,       \* the GPU objects the renderer holds
  last,         \* cache key -> what the previous lookup of the key returned
  frame,        \* the last operation: its device calls, pass commands and lookups
  renderList    \* the list last returned by sort

vars == <<nodes, camera, materials, uniformLists, uniforms, geometries,
          renderer, device, last, frame, renderList>>

(***************************************************************************)
(* Bounds of the model.                                                    *)
(***************************************************************************)
MaxNodes == 3          \* nodes of a scene, the scene root included
MaxZ == 1              \* world-space z translations are 0..MaxZ

NoCamera == [present |-> FALSE, matrixAutoUpdate |-> FALSE, projectionMatrix |-> 0,
             viewMatrix |-> 0, projectionViewMatrix |-> 0]

NodeIds == 1..MaxNodes

(***************************************************************************)
(* Scene graph.  parent = 0 marks the scene root.  Children are visited in *)
(* ascending id order (the order in which they were added).                *)
(***************************************************************************)
Children(ns, n) == { c \in DOMAIN ns : ns[c].parent = n }

\* The elements of a finite set of integers as an ascending sequence.
RECURSIVE Ascending(_)
Ascending(S) ==
  IF S = {} THEN <<>>
  ELSE LET m == CHOOSE x \in S : \A y \in S : x <= y
       IN <<m>> \o Ascending(S \ {m})

(***************************************************************************)
(* sort: the traversal callback.  Returns whether the subtree is skipped   *)
(* (the callback's `return true`) and whether the node is pushed.          *)
(***************************************************************************)
SortCallbackNoSkip(node) ==
  IF ~node.visible THEN [ skip |-> FALSE, push |-> FALSE ]
  ELSE IF node.kind # "Mesh" THEN [ skip |-> FALSE, push |-> FALSE ]
  ELSE [ skip |-> FALSE, push |-> TRUE ]

SortCallback(node) ==
  IF ~node.visible THEN [ skip |-> TRUE, push |-> FALSE ]
  ELSE IF node.kind # "Mesh" THEN [ skip |-> FALSE, push |-> FALSE ]
  ELSE [ skip |-> FALSE, push |-> TRUE ]

(***************************************************************************)
(* Object3D.traverse: calls the callback on the node; a true return stops  *)
(* the descent, otherwise every child is traversed in order.               *)
(***************************************************************************)
RECURSIVE traverse(_, _)
RECURSIVE traverseAll(_, _)
traverse(ns, n) ==
  LET r == SortCallback(ns[n])
  IN IF r.skip THEN <<>>
     ELSE (IF r.push THEN <<n>> ELSE <<>>) \o traverseAll(ns, Ascending(Children(ns, n)))

traverseAll(ns, cs) ==
  IF cs = <<>> THEN <<>>
  ELSE traverse(ns, Head(cs)) \o traverseAll(ns, Tail(cs))

(***************************************************************************)
(* Vec3.transformMat4 restricted to the z row of an affine matrix whose    *)
(* only non-zero z coefficient is the scale on z: the projected depth of a *)
(* world translation (0, 0, z).                                            *)
(***************************************************************************)
transformMat4Z(z, m) == m * z

Num(b) == IF b THEN 1 ELSE 0

(***************************************************************************)
(* sort: the comparator handed to Array.prototype.sort.  A negative result *)
(* puts a first, a positive one puts b first.                              *)
(***************************************************************************)
compareNoDepthTier(ns, ms, cam, a, b) ==
  LET depth == IF cam.present
               THEN transformMat4Z(ns[b].z, cam.projectionViewMatrix)
                    - transformMat4Z(ns[a].z, cam.projectionViewMatrix)
               ELSE 0
  IN IF depth # 0 THEN depth
     ELSE Num(ms[ns[a].material].transparent) - Num(ms[ns[b].material].transparent)

compareAscendingDepth(ns, ms, cam, a, b) ==
  LET res0 == Num(ms[ns[b].material].depthTest) - Num(ms[ns[a].material].depthTest)
      res1 == IF cam.present
              THEN IF res0 # 0 THEN res0
                   ELSE transformMat4Z(ns[a].z, cam.projectionViewMatrix)
                        - transformMat4Z(ns[b].z, cam.projectionViewMatrix)
              ELSE res0
  IN IF res1 # 0 THEN res1
     ELSE Num(ms[ns[a].material].transparent) - Num(ms[ns[b].material].transparent)

compareBoolean(ns, ms, cam, a, b) ==
  LET res0 == Num(ms[ns[b].material].depthTest) - Num(ms[ns[a].material].depthTest)
      res1 == IF cam.present
              THEN LET tempZ == transformMat4Z(ns[b].z, cam.projectionViewMatrix)
                       z == transformMat4Z(ns[a].z, cam.projectionViewMatrix)
                   IN IF res0 # 0 THEN res0 ELSE Num(tempZ > z)
              ELSE res0
  IN IF res1 # 0 THEN res1
     ELSE Num(ms[ns[a].material].transparent) - Num(ms[ns[b].material].transparent)

compare(ns, ms, cam, a, b) ==
  LET res0 == Num(ms[ns[b].material].depthTest) - Num(ms[ns[a].material].depthTest)
      res1 == IF cam.present
              THEN LET tempZ == transformMat4Z(ns[b].z, cam.projectionViewMatrix)
                       z == transformMat4Z(ns[a].z, cam.projectionViewMatrix)
                   IN IF res0 # 0 THEN res0 ELSE tempZ - z
              ELSE res0
  IN IF res1 # 0 THEN res1
     ELSE Num(ms[ns[a].material].transparent) - Num(ms[ns[b].material].transparent)

(***************************************************************************)
(* Array.prototype.sort: a stable sort (ECMAScript 2019), here by          *)
(* insertion: an element goes after every element already placed that does *)
(* not compare greater than it.                                            *)
(***************************************************************************)
RECURSIVE Insert(_, _, _, _, _)
Insert(ns, ms, cam, sorted, x) ==
  IF sorted = <<>> THEN <<x>>
  ELSE IF compare(ns, ms, cam, Head(sorted), x) > 0
       THEN <<x>> \o sorted
       ELSE <<Head(sorted)>> \o Insert(ns, ms, cam, Tail(sorted), x)

RECURSIVE ArraySort(_, _, _, _, _)
ArraySort(ns, ms, cam, list, acc) ==
  IF list = <<>> THEN acc
  ELSE ArraySort(ns, ms, cam, Tail(list), Insert(ns, ms, cam, acc, Head(list)))

(***************************************************************************)
(* sort(scene, camera): refreshes the camera's projection-view matrix when *)
(* the camera updates automatically, collects the visible meshes and sorts *)
(* them.                                                                   *)
(***************************************************************************)
sortCamera(cam) ==
  IF cam.present /\ cam.matrixAutoUpdate
  THEN [cam EXCEPT !.projectionViewMatrix = cam.projectionMatrix * cam.viewMatrix]
  ELSE cam

sort(ns, ms, cam) ==
  ArraySort(ns, ms, sortCamera(cam), traverse(ns, 1), <<>>)

(***************************************************************************)
(* The device.  A GPU object is a record in device.objects under its id;   *)
(* every device and queue call of an operation is appended to its log.     *)
(***************************************************************************)
NoLabel == <<>>

GpuObject(kind, size, sampleCount, width, height, label, layout, entries) ==
  [kind |-> kind, size |-> size, sampleCount |-> sampleCount, width |-> width,
   height |-> height, label |-> label, layout |-> layout, entries |-> entries,
   code |-> 0, data |-> 0, destroyed |-> FALSE]

Event(op, id, offset, size, data) ==
  [op |-> op, id |-> id, offset |-> offset, size |-> size, data |-> data]

\* The smallest id no object the renderer still refers to carries.
FreshId(st) ==
  CHOOSE i \in 1..(Cardinality(DOMAIN st.objects) + 1) :
    /\ i \notin DOMAIN st.objects
    /\ \A j \in 1..(i - 1) : j \in DOMAIN st.objects

created(st, op, obj) ==
  LET id == FreshId(st)
  IN [st EXCEPT !.objects = (id :> obj) @@ st.objects,
                !.log = Append(st.log, Event(op, id, 0, obj.size, 0)),
                !.ret = id]

\* The creations that can fail: buffer, texture, sampler, shader module, pipeline.
Fallible(op) ==
  op \in {"createBuffer", "createTexture", "createSampler", "createShaderModule",
          "createRenderPipeline"}

\* What a caller that catches the exception finds: the state at the throw.
Snapshot(st) ==
  [uniforms |-> st.uniforms, geometries |-> st.geometries, r |-> st.r,
   objects |-> st.objects, log |-> st.log, pass |-> st.pass,
   lookups |-> st.lookups, last |-> st.last]

\* device.create*: the failAt-th fallible creation of the operation throws, when
\* failAt is not 0.  Nothing the operation does after the throw is kept (Caught).
deviceCreate(st, op, obj) ==
  IF Fallible(op) /\ st.failAt = 1
  THEN [created(st, op, obj) EXCEPT !.failAt = 0, !.failed = TRUE,
                                     !.thrown = Snapshot(st)]
  ELSE IF Fallible(op) /\ st.failAt > 1
  THEN [created(st, op, obj) EXCEPT !.failAt = @ - 1]
  ELSE created(st, op, obj)

deviceDestroy(st, id) ==
  [st EXCEPT !.objects[id].destroyed = TRUE,
             !.log = Append(st.log, Event("destroy", id, 0, 0, 0))]

queueWriteBuffer(st, buffer, bufferOffset, byteLength, data) ==
  [st EXCEPT !.log = Append(st.log, Event("writeBuffer", buffer, bufferOffset, byteLength, data)),
             !.objects[buffer].data = data]

(***************************************************************************)
(* _updatePipeline, pipeline setup: the configuration the pipeline is      *)
(* keyed by, and its JSON text (the values in key order).                  *)
(***************************************************************************)
pipelineOption(st, mesh) ==
  LET mat == st.materials[st.nodes[mesh].material]
      geo == st.geometries[st.nodes[mesh].geometry]
  IN [transparent |-> mat.transparent,
      cullMode |-> mat.cullMode,
      topology |-> geo.topology,
      depthWriteEnabled |-> mat.depthWrite,
      depthCompare |-> IF mat.depthTest THEN "less" ELSE "always",
      vertexBufferLayouts |->
        [i \in 1..Len(geo.vertexBuffers) |-> geo.vertexBuffers[i].arrayStride],
      blending |-> mat.blending,
      colorAttachments |-> 1,
      samples |-> st.r.samples]

JSONStringify(o) ==
  <<o.transparent, o.cullMode, o.topology, o.depthWriteEnabled, o.depthCompare,
    o.vertexBufferLayouts, o.blending, o.colorAttachments, o.samples>>

\* The resource kind a bind group layout entry gets from a uniform's type.
LayoutKind(type) ==
  IF type = "buffer" THEN "buffer"
  ELSE IF type = "texture" \/ type = "externalTexture" THEN "texture"
  ELSE "sampler"

(***************************************************************************)
(* Cache keys are object identities: the mesh, the material's uniforms     *)
(* array, a uniform, an index buffer, a vertex buffer.                     *)
(***************************************************************************)
Key(ns, id, sub) == [ns |-> ns, id |-> id, sub |-> sub]

CacheEntry(obj, us) == [obj |-> obj, uniforms |-> us]

(***************************************************************************)
(* _createBuffer: a buffer of the data's byte length, then a queue write   *)
(* of the whole data at offset 0.  The buffer is left in ret.              *)
(***************************************************************************)
writeCreatedBuffer(s, byteLength, data) ==
  queueWriteBuffer(s, s.ret, 0, byteLength, data)

_createBuffer(st, byteLength, data) ==
  writeCreatedBuffer(
    deviceCreate(st, "createBuffer",
                 GpuObject("buffer", byteLength, 0, 0, 0, NoLabel, 0, <<>>)),
    byteLength, data)

(***************************************************************************)
(* _updateSampler                                                          *)
(***************************************************************************)
createSamplerKeepDirty(st, u) ==
  [deviceCreate(st, "createSampler", GpuObject("sampler", 0, 0, 0, 0, NoLabel, 0, <<>>))
     EXCEPT !.ret = CacheEntry(@, <<>>)]

createSampler(st, u) ==
  [deviceCreate(st, "createSampler", GpuObject("sampler", 0, 0, 0, 0, NoLabel, 0, <<>>))
     EXCEPT !.uniforms[u].needsUpdate = FALSE,
            !.ret = CacheEntry(@, <<>>)]

staleSampler(st, u) == [st EXCEPT !.ret = st.uniforms[u].needsUpdate]

(***************************************************************************)
(* _updateTexture: the image, if there is one, is copied to the new        *)
(* texture; the stale predicate destroys the outgoing texture when the     *)
(* descriptor is dirty.                                                    *)
(***************************************************************************)
copyExternalImageToTexture(s, t) ==
  IF t.image
  THEN [s EXCEPT !.log = Append(@, Event("copyExternalImageToTexture", s.ret, 0,
                                         t.byteLength, t.value)),
                 !.objects[s.ret].data = t.value]
  ELSE s

createTexture(st, u) ==
  [copyExternalImageToTexture(
     deviceCreate(st, "createTexture",
                  GpuObject("texture", st.uniforms[u].byteLength, 1, 1, 1, NoLabel, 0, <<>>)),
     st.uniforms[u])
     EXCEPT !.uniforms[u].needsUpdate = FALSE,
            !.ret = CacheEntry(@, <<>>)]

staleTextureKeep(st, u) == [st EXCEPT !.ret = st.uniforms[u].needsUpdate]

staleTexture(st, u) ==
  LET o == st.r.cacheMap[Key("uniform", u, 0)].obj
      res == st.uniforms[u].needsUpdate
  IN [(IF res THEN deviceDestroy(st, o) ELSE st) EXCEPT !.ret = res]

(***************************************************************************)
(* The render pass: the commands recorded by the last render call.  A draw *)
(* count is the fraction countNum / countDen, as Math.min and the division *)
(* in render leave it.                                                     *)
(***************************************************************************)
Cmd(cmd, mesh, obj, slot, countNum, countDen, instanceCount, first, entries) ==
  [cmd |-> cmd, mesh |-> mesh, obj |-> obj, slot |-> slot, countNum |-> countNum,
   countDen |-> countDen, instanceCount |-> instanceCount, first |-> first,
   entries |-> entries]

record(st, c) == [st EXCEPT !.pass = Append(st.pass, c)]

(***************************************************************************)
(* _resizeSwapchain: the context is configured; each target is destroyed,  *)
(* if there is one, and then created anew at the canvas size with the      *)
(* configured sample count.                                                *)
(***************************************************************************)
configure(st) == [st EXCEPT !.log = Append(@, Event("configure", 0, 0, 0, 0))]

createTargetTexture(s) ==
  deviceCreate(s, "createTexture",
               GpuObject("texture", 0, s.r.samples, s.r.width, s.r.height, NoLabel, 0, <<>>))

keepMsaaTexture(s) == s

destroyMsaaTexture(s) ==
  IF s.r.msaaTexture # 0 THEN deviceDestroy(s, s.r.msaaTexture) ELSE s

setMsaaTexture(s) == [s EXCEPT !.r.msaaTexture = s.ret, !.r.msaaTextureView = s.ret]

destroyDepthTexture(s) ==
  IF s.r.depthTexture # 0 THEN deviceDestroy(s, s.r.depthTexture) ELSE s

setDepthTexture(s) == [s EXCEPT !.r.depthTexture = s.ret, !.r.depthTextureView = s.ret]

_resizeSwapchain(st) ==
  setDepthTexture(createTargetTexture(destroyDepthTexture(
    setMsaaTexture(createTargetTexture(destroyMsaaTexture(configure(st)))))))

setSize(st, width, height) ==
  _resizeSwapchain([st EXCEPT !.r.width = width, !.r.height = height])

(***************************************************************************)
(* _updatePipeline, uniform setup: the layout entry cached under the       *)
(* material's uniforms array holds a copy of the array behind a new base   *)
(* uniform (reference 0) and the bind group layout made from the kinds.    *)
(***************************************************************************)
UniformType(st, ref) == IF ref = 0 THEN "buffer" ELSE st.uniforms[ref].type

createUniformLayout(st, l) ==
  LET us == <<0>> \o st.uniformLists[l]
  IN [deviceCreate([st EXCEPT !.r.baseUniforms =
                      (l :> [value |-> 0, needsUpdate |-> FALSE]) @@ @],
                   "createBindGroupLayout",
                   GpuObject("bindGroupLayout", 0, 0, 0, 0, NoLabel, 0,
                             [i \in 1..Len(us) |-> LayoutKind(UniformType(st, us[i]))]))
        EXCEPT !.ret = CacheEntry(@, us)]

(***************************************************************************)
(* _updatePipeline, update base uniform: the block is rewritten from the   *)
(* mesh's and the camera's matrices (here: the mesh whose matrices it      *)
(* holds) and marked dirty.                                                *)
(***************************************************************************)
BaseByteLength == 320

updateBaseUniform(st, l, mesh) ==
  [st EXCEPT !.r.baseUniforms[l] = [value |-> mesh, needsUpdate |-> TRUE]]

(***************************************************************************)
(* _updatePipeline, uniform binding: one bind group entry per uniform of   *)
(* the cached copy.  A buffer is created on its first lookup and written   *)
(* again when its descriptor is dirty.                                     *)
(***************************************************************************)
UniformBufferOf(st, l, ref) ==
  IF ref = 0
  THEN [byteOffset |-> 0, byteLength |-> BaseByteLength,
        value |-> st.r.baseUniforms[l].value,
        needsUpdate |-> st.r.baseUniforms[l].needsUpdate]
  ELSE [byteOffset |-> st.uniforms[ref].byteOffset,
        byteLength |-> st.uniforms[ref].byteLength,
        value |-> st.uniforms[ref].value,
        needsUpdate |-> st.uniforms[ref].needsUpdate]

UniformKey(l, ref) == IF ref = 0 THEN Key("base", l, 0) ELSE Key("uniform", ref, 0)

clearUniformDirty(st, l, ref) ==
  IF ref = 0 THEN [st EXCEPT !.r.baseUniforms[l].needsUpdate = FALSE]
  ELSE [st EXCEPT !.uniforms[ref].needsUpdate = FALSE]

createUniformBuffer(st, l, ref) ==
  [_createBuffer(st, UniformBufferOf(st, l, ref).byteLength, UniformBufferOf(st, l, ref).value)
     EXCEPT !.ret = CacheEntry(@, <<>>)]

(***************************************************************************)
(* The create functions and stale predicates of the pipeline, the index    *)
(* buffer and the vertex buffers.  A vertex buffer's create function clears *)
(* the dirty flag.                                                         *)
(***************************************************************************)
createPipeline(st, mesh, bindGroupLayout) ==
  LET opt == pipelineOption(st, mesh)
      mat == st.materials[st.nodes[mesh].material]
  IN [deviceCreate(
        deviceCreate(
          deviceCreate(st, "createShaderModule",
            [GpuObject("shaderModule", 0, 0, 0, 0, NoLabel, 0, <<>>)
               EXCEPT !.code = mat.shaderCode]),
          "createPipelineLayout",
          GpuObject("pipelineLayout", 0, 0, 0, 0, NoLabel, bindGroupLayout, <<>>)),
        "createRenderPipeline",
        [GpuObject("pipeline", 0, opt.samples, 0, 0, JSONStringify(opt),
                   bindGroupLayout, <<>>)
           EXCEPT !.code = mat.shaderCode])
        EXCEPT !.ret = CacheEntry(@, <<>>)]

stalePipelineNever(st, mesh) == [st EXCEPT !.ret = FALSE]

stalePipeline(st, mesh) ==
  LET o == st.objects[st.r.cacheMap[Key("mesh", mesh, 0)].obj]
  IN [st EXCEPT !.ret = (o.label # JSONStringify(pipelineOption(st, mesh)))]

createIndexBuffer(st, g) ==
  LET ib == st.geometries[g].indexBuffer
  IN [_createBuffer(st, ib.length * ib.bytesPerElement, ib.value)
        EXCEPT !.ret = CacheEntry(@, <<>>)]

createVertexBufferKeepDirty(st, g, i) ==
  LET vb == st.geometries[g].vertexBuffers[i]
  IN [_createBuffer(st, vb.length * vb.bytesPerElement, vb.value)
        EXCEPT !.ret = CacheEntry(@, <<>>)]

createVertexBuffer(st, g, i) ==
  LET vb == st.geometries[g].vertexBuffers[i]
  IN [_createBuffer([st EXCEPT !.geometries[g].vertexBuffers[i].needsUpdate = FALSE],
                    vb.length * vb.bytesPerElement, vb.value)
        EXCEPT !.ret = CacheEntry(@, <<>>)]

(***************************************************************************)
(* The closures handed to _cached: the function's name and the values it   *)
(* closes over.  Both return the state they leave, the value in ret.       *)
(***************************************************************************)
Fn(name, a, b) == [name |-> name, a |-> a, b |-> b]

NoStale == Fn("none", 0, 0)

onCreate(st, fn) ==
  CASE fn.name = "createSampler" -> createSampler(st, fn.a)
    [] fn.name = "createTexture" -> createTexture(st, fn.a)
    [] fn.name = "createUniformLayout" -> createUniformLayout(st, fn.a)
    [] fn.name = "createUniformBuffer" -> createUniformBuffer(st, fn.a, fn.b)
    [] fn.name = "createPipeline" -> createPipeline(st, fn.a, fn.b)
    [] fn.name = "createIndexBuffer" -> createIndexBuffer(st, fn.a)
    [] fn.name = "createVertexBuffer" -> createVertexBuffer(st, fn.a, fn.b)

stale(st, fn) ==
  CASE fn.name = "staleSampler" -> staleSampler(st, fn.a)
    [] fn.name = "staleTexture" -> staleTexture(st, fn.a)
    [] fn.name = "stalePipeline" -> stalePipeline(st, fn.a)
    [] fn.name = "none" -> [st EXCEPT !.ret = FALSE]

(***************************************************************************)
(* weakCached(k, onCreate, {stale, cacheMap}): the first lookup of a key   *)
(* creates and stores; a later one re-creates and replaces when the stale  *)
(* predicate holds of the stored value, and returns the stored value       *)
(* otherwise.  cacheSet stores what the create function returned;          *)
(* cacheGet takes the state the stale predicate left, its answer in ret.   *)
(***************************************************************************)
cacheSetOnce(s, k) ==
  IF k \in DOMAIN s.r.cacheMap THEN [s EXCEPT !.created = TRUE]
  ELSE [s EXCEPT !.r.cacheMap = (k :> s.ret) @@ @, !.created = TRUE]

cacheSet(s, k) ==
  [s EXCEPT !.r.cacheMap = (k :> s.ret) @@ @, !.created = TRUE]

cacheGet(s, cacheMap, k, create) ==
  IF ~s.ret
  THEN [s EXCEPT !.ret = cacheMap[k], !.created = FALSE]
  ELSE cacheSet(onCreate(s, create), k)

weakCached(st, cacheMap, k, create, isStale) ==
  IF k \in DOMAIN cacheMap
  THEN cacheGet(stale(st, isStale), cacheMap, k, create)
  ELSE cacheSet(onCreate(st, create), k)

(***************************************************************************)
(* _cached: weakCached on the renderer's own cache map.  Each lookup is    *)
(* noted in st.lookups with what the previous lookup of the key returned.  *)
(***************************************************************************)
KeyKind(st, k) ==
  IF k.ns = "mesh" THEN "pipeline"
  ELSE IF k.ns = "uniforms" THEN "layout"
  ELSE IF k.ns = "uniform" THEN LayoutKind(st.uniforms[k.id].type)
  ELSE "buffer"

\* The configuration text of the mesh a pipeline key names, <<>> for other keys.
KeyFingerprint(st, k) ==
  IF k.ns = "mesh" THEN JSONStringify(pipelineOption(st, k.id)) ELSE <<>>

Lookup(st, k, s2) ==
  [key |-> k,
   kind |-> KeyKind(st, k),
   hadEntry |-> k \in DOMAIN st.r.cacheMap,
   marked |-> IF k \notin DOMAIN st.last THEN FALSE
              ELSE IF k.ns = "mesh" THEN st.last[k].fingerprint # KeyFingerprint(st, k)
              ELSE st.last[k].marked,
   prevRet |-> IF k \in DOMAIN st.last THEN st.last[k].ret ELSE 0,
   prevCreated |-> IF k \in DOMAIN st.last THEN st.last[k].created ELSE FALSE,
   created |-> s2.created,
   ret |-> s2.ret.obj,
   stored |-> s2.r.cacheMap[k].obj]

noteLookup(st, k, s2) ==
  [s2 EXCEPT !.lookups = Append(s2.lookups, Lookup(st, k, s2)),
             !.last = (k :> [ret |-> s2.ret.obj, created |-> s2.created,
                             marked |-> FALSE,
                             fingerprint |-> KeyFingerprint(st, k)]) @@ s2.last]

_cachedFreshMap(st, k, create, isStale) ==
  noteLookup(st, k, weakCached(st, <<>>, k, create, isStale))

_cached(st, k, create, isStale) ==
  noteLookup(st, k, weakCached(st, st.r.cacheMap, k, create, isStale))

(***************************************************************************)
(* _updateSampler, _updateTexture                                          *)
(***************************************************************************)
_updateSampler(st, u) ==
  _cached(st, Key("uniform", u, 0), Fn("createSampler", u, 0), Fn("staleSampler", u, 0))

_updateTexture(st, u) ==
  _cached(st, Key("uniform", u, 0), Fn("createTexture", u, 0), Fn("staleTexture", u, 0))

(***************************************************************************)
(* _updatePipeline, uniform binding: a buffer is created on its first      *)
(* lookup and written again when its descriptor is dirty.  The resource    *)
(* of the entry is left in ret and pushed to the entries.                  *)
(***************************************************************************)
writeDirtyUniformBuffer(s, l, ref) ==
  LET buffer == s.ret.obj
      v == UniformBufferOf(s, l, ref)
  IN [(IF v.needsUpdate
       THEN clearUniformDirty(
              queueWriteBuffer(s, buffer, v.byteOffset, v.byteLength, v.value), l, ref)
       ELSE s)
        EXCEPT !.ret = buffer]

bindUniformBuffer(st, l, ref) ==
  writeDirtyUniformBuffer(
    _cached(st, UniformKey(l, ref), Fn("createUniformBuffer", l, ref), NoStale), l, ref)

bindUniform(st, l, ref) ==
  LET type == UniformType(st, ref)
  IN IF type = "buffer" THEN bindUniformBuffer(st, l, ref)
     ELSE IF type = "texture" \/ type = "externalTexture"
     THEN [_updateTexture(st, ref) EXCEPT !.ret = @.obj]
     ELSE [_updateSampler(st, ref) EXCEPT !.ret = @.obj]

pushEntry(s) == [s EXCEPT !.entries = Append(@, s.ret)]

\* uniforms.map(...): the entries, in binding order, left in st.entries.
RECURSIVE bindGroupEntries(_, _, _, _)
bindGroupEntries(st, l, us, i) ==
  IF i > Len(us) THEN st
  ELSE bindGroupEntries(pushEntry(bindUniform(st, l, us[i])), l, us, i + 1)

(***************************************************************************)
(* _updatePipeline, index and vertex buffers: a dirty vertex buffer is     *)
(* written at the byte offset of its data.                                 *)
(***************************************************************************)
setIndexBuffer(s, mesh) ==
  record(s, Cmd("setIndexBuffer", mesh, s.ret.obj,
                s.geometries[s.nodes[mesh].geometry].indexBuffer.bytesPerElement * 8,
                0, 1, 0, 0, <<>>))

bindIndexBuffer(st, mesh) ==
  LET g == st.nodes[mesh].geometry
  IN IF st.geometries[g].indexBuffer.present
     THEN setIndexBuffer(
            _cached(st, Key("ib", g, 0), Fn("createIndexBuffer", g, 0), NoStale), mesh)
     ELSE st

writeDirtyVertexBuffer(s, mesh, i) ==
  LET g == s.nodes[mesh].geometry
      buffer == s.ret.obj
      vb == s.geometries[g].vertexBuffers[i]
  IN record(IF vb.needsUpdate
            THEN [queueWriteBuffer(s, buffer, vb.byteOffset,
                                   vb.length * vb.bytesPerElement, vb.value)
                    EXCEPT !.geometries[g].vertexBuffers[i].needsUpdate = FALSE]
            ELSE s,
            Cmd("setVertexBuffer", mesh, buffer, i - 1, 0, 1, 0, 0, <<>>))

bindVertexBuffer(st, mesh, i) ==
  writeDirtyVertexBuffer(
    _cached(st, Key("vb", st.nodes[mesh].geometry, i),
            Fn("createVertexBuffer", st.nodes[mesh].geometry, i), NoStale),
    mesh, i)

RECURSIVE bindVertexBuffers(_, _, _)
bindVertexBuffers(st, mesh, i) ==
  IF i > Len(st.geometries[st.nodes[mesh].geometry].vertexBuffers) THEN st
  ELSE bindVertexBuffers(bindVertexBuffer(st, mesh, i), mesh, i + 1)

(***************************************************************************)
(* _updatePipeline(mesh, camera), step by step: uniform setup (the cached  *)
(* {uniforms, bindGroupLayout} is kept in st.layout), update base uniform  *)
(* and uniform binding, pipeline setup, index and vertex buffers, and the  *)
(* bind group when there are entries.                                      *)
(***************************************************************************)
MaterialUniforms(st, mesh) == st.materials[st.nodes[mesh].material].uniforms

destructure(s) == [s EXCEPT !.layout = s.ret]

uniformSetup(st, mesh) ==
  destructure(_cached(st, Key("uniforms", MaterialUniforms(st, mesh), 0),
                      Fn("createUniformLayout", MaterialUniforms(st, mesh), 0), NoStale))

uniformBinding(s, mesh) ==
  bindGroupEntries(
    [updateBaseUniform(s, MaterialUniforms(s, mesh), mesh) EXCEPT !.entries = <<>>],
    MaterialUniforms(s, mesh), s.layout.uniforms, 1)

setPipeline(s, mesh) ==
  record(s, Cmd("setPipeline", mesh, s.ret.obj, 0, 0, 1, 0, 0, <<>>))

pipelineSetupShared(s, mesh) ==
  setPipeline(_cached(s, Key("mesh", 2, 0),
                      Fn("createPipeline", mesh, s.layout.obj), NoStale),
              mesh)

pipelineSetup(s, mesh) ==
  setPipeline(_cached(s, Key("mesh", mesh, 0),
                      Fn("createPipeline", mesh, s.layout.obj),
                      Fn("stalePipeline", mesh, 0)),
              mesh)

setBindGroup(s, mesh) ==
  record(s, Cmd("setBindGroup", mesh, s.ret, 0, 0, 1, 0, 0, s.entries))

createBindGroup(s, mesh) ==
  IF Len(s.entries) > 0
  THEN setBindGroup(
         deviceCreate(s, "createBindGroup",
                      GpuObject("bindGroup", 0, 0, 0, 0, NoLabel, s.layout.obj, s.entries)),
         mesh)
  ELSE s

_updatePipeline(st, mesh) ==
  createBindGroup(
    bindVertexBuffers(
      bindIndexBuffer(pipelineSetup(uniformBinding(uniformSetup(st, mesh), mesh), mesh),
                      mesh),
      mesh, 1),
    mesh)

(***************************************************************************)
(* render: the draw of one node.  The count of an indexed draw is the      *)
(* smaller of the draw range's count and the index buffer's length; the    *)
(* count of a non-indexed draw is the smaller of the draw range's count    *)
(* and position.buffer.length / position.layout.arrayStride.               *)
(***************************************************************************)
Min(a, b) == IF a <= b THEN a ELSE b

indexedCountUnclamped(geo) == geo.drawRange.count

indexedCount(geo) == Min(geo.drawRange.count, geo.indexBuffer.length)

vertexCount(geo) ==
  LET position == geo.vertexBuffers[1]
  IN IF geo.drawRange.count * position.arrayStride <= position.length
     THEN [num |-> geo.drawRange.count, den |-> 1]
     ELSE [num |-> position.length, den |-> position.arrayStride]

drawStartIgnored(geo) == 0

drawStart(geo) == IF geo.drawRange.hasStart THEN geo.drawRange.start ELSE 0

drawNode(st, mesh) ==
  LET geo == st.geometries[st.nodes[mesh].geometry]
  IN IF geo.indexBuffer.present
     THEN record(st, Cmd("drawIndexed", mesh, 0, 0, indexedCount(geo), 1,
                         geo.instanceCount, drawStart(geo), <<>>))
     ELSE IF Len(geo.vertexBuffers) > 0
     THEN record(st, Cmd("draw", mesh, 0, 0, vertexCount(geo).num, vertexCount(geo).den,
                         geo.instanceCount, drawStart(geo), <<>>))
     ELSE record(st, Cmd("draw", mesh, 0, 0, 3, 1, geo.instanceCount, 0, <<>>))

RECURSIVE drawList(_, _, _)
drawList(st, list, i) ==
  IF i > Len(list) THEN st
  ELSE drawList(drawNode(_updatePipeline(st, list[i]), list[i]), list, i + 1)

(***************************************************************************)
(* render(scene, camera): the targets are recreated when the sample count  *)
(* changed, the pass is begun, every node of the sorted list is assembled  *)
(* and drawn, the pass is ended and the command buffer submitted.  The     *)
(* sorted list is left in ret.                                             *)
(***************************************************************************)
resizeNever(st) == st

resizeOnSamples(st) ==
  IF st.objects[st.r.msaaTexture].sampleCount # st.r.samples
  THEN _resizeSwapchain(st) ELSE st

beginRenderPass(s) ==
  record(record([s EXCEPT !.log = Append(@, Event("createCommandEncoder", 0, 0, 0, 0))],
                Cmd("beginRenderPass", 0, s.r.msaaTextureView, s.r.depthTextureView,
                    0, 1, 0, 0, <<>>)),
         Cmd("setViewport", 0, s.r.width, s.r.height, 0, 1, 0, 0, <<>>))

\* The submit event carries the number of commands the submitted buffer holds.
submit(s) == [s EXCEPT !.log = Append(@, Event("submit", 0, 0, Len(s.pass), 0))]

submitThenEnd(s, list) ==
  [record(submit(s), Cmd("end", 0, 0, 0, 0, 1, 0, 0, <<>>)) EXCEPT !.ret = list]

endAndSubmit(s, list) ==
  [submit(record(s, Cmd("end", 0, 0, 0, 0, 1, 0, 0, <<>>))) EXCEPT !.ret = list]

render(st, cam) ==
  endAndSubmit(
    drawList(beginRenderPass(resizeOnSamples(st)), sort(st.nodes, st.materials, cam), 1),
    sort(st.nodes, st.materials, cam))

(***************************************************************************)
(* The state an operation starts from: the variables, with empty logs.     *)
(***************************************************************************)
EmptyMap == [x \in {} |-> 0]

StateOf(ns, ms, uls, us, gs, r, objs, lst) ==
  [nodes |-> ns, materials |-> ms, uniformLists |-> uls, uniforms |-> us,
   geometries |-> gs, r |-> r, objects |-> objs,
   log |-> <<>>, pass |-> <<>>, lookups |-> <<>>, last |-> lst,
   layout |-> CacheEntry(0, <<>>), entries |-> <<>>, ret |-> 0, created |-> FALSE,
   failAt |-> 0, failed |-> FALSE, thrown |-> EmptyMap]

Begin ==
  StateOf(nodes, materials, uniformLists, uniforms, geometries, renderer,
          device.objects, last)

(***************************************************************************)
(* Between operations only the GPU objects the renderer still holds (its   *)
(* two targets and the cached objects) matter, and their ids are names     *)
(* without meaning: they are renamed to 1, 2 for the targets and 3, 4, ..  *)
(* for the cached objects in the order of their keys.  The logs of the     *)
(* operation keep the names the operation used, with the objects as the    *)
(* operation left them.                                                    *)
(***************************************************************************)
NsRank(ns) ==
  CASE ns = "uniforms" -> 1
    [] ns = "base" -> 2
    [] ns = "uniform" -> 3
    [] ns = "mesh" -> 4
    [] ns = "ib" -> 5
    [] ns = "vb" -> 6

KeyRank(k) == NsRank(k.ns) * 100 + k.id * 10 + k.sub

CanonId(s, id) ==
  IF id = s.r.msaaTexture THEN 1
  ELSE IF id = s.r.depthTexture THEN 2
  ELSE IF \E k \in DOMAIN s.r.cacheMap : s.r.cacheMap[k].obj = id
  THEN LET k == CHOOSE j \in DOMAIN s.r.cacheMap : s.r.cacheMap[j].obj = id
       IN 2 + Cardinality({ j \in DOMAIN s.r.cacheMap : KeyRank(j) <= KeyRank(k) })
  ELSE 0

CanonRenderer(s) ==
  [s.r EXCEPT !.msaaTexture = CanonId(s, s.r.msaaTexture),
              !.msaaTextureView = CanonId(s, s.r.msaaTextureView),
              !.depthTexture = CanonId(s, s.r.depthTexture),
              !.depthTextureView = CanonId(s, s.r.depthTextureView),
              !.cacheMap = [k \in DOMAIN s.r.cacheMap |->
                              [s.r.cacheMap[k] EXCEPT !.obj = CanonId(s, s.r.cacheMap[k].obj)]]]

CanonObjects(s) ==
  LET held == { id \in DOMAIN s.objects : CanonId(s, id) # 0 }
  IN [i \in { CanonId(s, id) : id \in held } |->
        LET id == CHOOSE j \in held : CanonId(s, j) = i
        IN [s.objects[id] EXCEPT !.layout = CanonId(s, s.objects[id].layout)]]

CanonLast(s) ==
  [k \in DOMAIN s.last |-> [s.last[k] EXCEPT !.ret = CanonId(s, s.last[k].ret)]]

\* The state an operation that threw leaves to its caller.
Caught(s) ==
  IF s.failed
  THEN [s EXCEPT !.uniforms = s.thrown.uniforms, !.geometries = s.thrown.geometries,
                 !.r = s.thrown.r, !.objects = s.thrown.objects, !.log = s.thrown.log,
                 !.pass = s.thrown.pass, !.lookups = s.thrown.lookups,
                 !.last = s.thrown.last, !.ret = <<>>]
  ELSE s

\* What an operation found, kept for the properties stated of it.
Pre == [uniforms |-> uniforms, geometries |-> geometries,
        cached |-> DOMAIN renderer.cacheMap, samples |-> renderer.samples,
        width |-> renderer.width, height |-> renderer.height]

Kept(s) ==
  /\ uniforms' = s.uniforms
  /\ geometries' = s.geometries
  /\ renderer' = CanonRenderer(s)
  /\ device' = [objects |-> CanonObjects(s)]
  /\ last' = CanonLast(s)

Finish(s, op) ==
  /\ Kept(s)
  /\ frame' = [op |-> op, pass |-> s.pass, lookups |-> s.lookups, log |-> s.log,
               objects |-> s.objects, pre |-> Pre, failed |-> s.failed,
               msaaTexture |-> s.r.msaaTexture, depthTexture |-> s.r.depthTexture]
  /\ renderList' = s.ret

(***************************************************************************)
(* The renderer as its constructor leaves it: default settings, an empty   *)
(* cache and the two targets made by _resizeSwapchain.                     *)
(***************************************************************************)
DefaultSamples == 4

NewRenderer ==
  [samples |-> DefaultSamples, autoClear |-> TRUE, width |-> 1, height |-> 1,
   msaaTexture |-> 0, msaaTextureView |-> 0, depthTexture |-> 0,
   depthTextureView |-> 0, cacheMap |-> EmptyMap, baseUniforms |-> EmptyMap]

Constructed ==
  _resizeSwapchain(StateOf(EmptyMap, EmptyMap, EmptyMap, EmptyMap, EmptyMap,
                           NewRenderer, EmptyMap, EmptyMap))

NoFrame == [op |-> "constructor", pass |-> <<>>, lookups |-> <<>>,
            log |-> <<>>, objects |-> EmptyMap, failed |-> FALSE,
            msaaTexture |-> 0, depthTexture |-> 0,
            pre |-> [uniforms |-> EmptyMap, geometries |-> EmptyMap,
                     cached |-> {}, samples |-> DefaultSamples,
                     width |-> 0, height |-> 0]]

InitRenderer ==
  /\ renderer = Constructed.r
  /\ device = [objects |-> Constructed.objects]
  /\ last = EmptyMap
  /\ frame = [NoFrame EXCEPT !.log = Constructed.log, !.objects = Constructed.objects,
                             !.msaaTexture = Constructed.r.msaaTexture,
                             !.depthTexture = Constructed.r.depthTexture]
  /\ renderList = <<>>

(***************************************************************************)
(* Descriptors.                                                            *)
(***************************************************************************)
Node(kind, visible, parent, z, material, geometry) ==
  [kind |-> kind, visible |-> visible, parent |-> parent, z |-> z,
   material |-> material, geometry |-> geometry]

Material(depthTest, transparent, us) ==
  [depthTest |-> depthTest, transparent |-> transparent, cullMode |-> "back",
   depthWrite |-> TRUE, blending |-> "none", shaderCode |-> 1, uniforms |-> us]

IndexBuffer(present, length, bytesPerElement) ==
  [present |-> present, length |-> length, bytesPerElement |-> bytesPerElement,
   value |-> 0]

VertexBuffer(length, bytesPerElement, arrayStride) ==
  [length |-> length, bytesPerElement |-> bytesPerElement, byteOffset |-> 0,
   arrayStride |-> arrayStride, needsUpdate |-> FALSE, value |-> 0]

DrawRange(hasStart, start, count) ==
  [hasStart |-> hasStart, start |-> start, count |-> count]

Geometry(indexBuffer, vertexBuffers, drawRange, instanceCount) ==
  [topology |-> "triangle-list", indexBuffer |-> indexBuffer,
   vertexBuffers |-> vertexBuffers, drawRange |-> drawRange,
   instanceCount |-> instanceCount]

\* An indexed triangle: three uint16 indices, three vec3<f32> positions.
Triangle ==
  Geometry(IndexBuffer(TRUE, 3, 2), <<VertexBuffer(9, 4, 12)>>,
           DrawRange(TRUE, 0, 3), 1)

Camera(matrixAutoUpdate, viewMatrix, projectionViewMatrix) ==
  [present |-> TRUE, matrixAutoUpdate |-> matrixAutoUpdate, projectionMatrix |-> 1,
   viewMatrix |-> viewMatrix, projectionViewMatrix |-> projectionViewMatrix]

(***************************************************************************)
(* Operations.                                                             *)
(***************************************************************************)
Sort ==
  /\ renderList' = sort(nodes, materials, camera)
  /\ camera' = sortCamera(camera)
  /\ frame' = [frame EXCEPT !.op = "sort"]
  /\ UNCHANGED <<nodes, materials, uniformLists, uniforms, geometries, renderer,
                 device, last>>

Render ==
  /\ camera.present
  /\ Finish(render(Begin, camera), "render")
  /\ camera' = sortCamera(camera)
  /\ UNCHANGED <<nodes, materials, uniformLists>>

\* renderer.setSize(width, height)
SetSize(width, height) ==
  /\ Finish([setSize(Begin, width, height) EXCEPT !.ret = renderList], "setSize")
  /\ UNCHANGED <<nodes, camera, materials, uniformLists>>

(***************************************************************************)
(* Scenes for sort: trees of MaxNodes nodes under the scene root; each     *)
(* node is a group or a mesh, visible or not.  The sort keys of a node     *)
(* that is not a visible mesh play no part and are left at their defaults. *)
(* The depths differ in the flat scenes (a visible group with visible      *)
(* meshes as its children); in the other trees every mesh is at depth 0.   *)
(* Node n has material n.                                                  *)
(***************************************************************************)
SortNode ==
  { [kind |-> "Object3D", visible |-> v, z |-> 0, depthTest |-> TRUE,
     transparent |-> FALSE] : v \in BOOLEAN }
  \cup { [kind |-> "Mesh", visible |-> FALSE, z |-> 0, depthTest |-> TRUE,
          transparent |-> FALSE] }
  \cup { [kind |-> "Mesh", visible |-> TRUE, z |-> z, depthTest |-> d,
          transparent |-> t] : z \in 0..MaxZ, d \in BOOLEAN, t \in BOOLEAN }

Parents ==
  { p \in [NodeIds -> 0..(MaxNodes - 1)] :
      \A n \in NodeIds : p[n] < n /\ (n > 1 => p[n] >= 1) }

Flat(p, c) ==
  /\ c[1].kind = "Object3D" /\ c[1].visible
  /\ \A n \in NodeIds \ {1} : p[n] = 1 /\ c[n].kind = "Mesh" /\ c[n].visible

SortScenes ==
  { pc \in Parents \X [NodeIds -> SortNode] :
      Flat(pc[1], pc[2]) \/ \A n \in NodeIds : pc[2][n].z = 0 }

SortCameras == { NoCamera, Camera(TRUE, 0 - 1, 1), Camera(FALSE, 0 - 1, 1) }

SortInit ==
  /\ \E pc \in SortScenes :
       LET p == pc[1]
           c == pc[2]
       IN /\ nodes = [n \in NodeIds |->
                        Node(c[n].kind, c[n].visible, p[n], c[n].z, n, 1)]
          /\ materials = [n \in NodeIds |->
                            Material(c[n].depthTest, c[n].transparent, n)]
  /\ camera \in SortCameras
  /\ uniformLists = [n \in NodeIds |-> <<>>]
  /\ uniforms = EmptyMap
  /\ geometries = [g \in {1} |-> Triangle]
  /\ InitRenderer

SortSpec == SortInit /\ [][Sort]_vars

(***************************************************************************)
(* Scenes for the draw calls: one visible mesh below the scene root, its   *)
(* geometry drawn from every combination of an index buffer (absent or of  *)
(* 1..MaxLen uint16 elements), a first vertex buffer (absent or of         *)
(* 1..MaxLen vertices of 1..MaxComponents elements of 1, 2 or 4 bytes), a  *)
(* draw range and an instance count.                                       *)
(***************************************************************************)
MaxLen == 3            \* elements of an index buffer, vertices of a vertex buffer
MaxComponents == 2     \* elements per vertex
MaxCount == 4          \* drawRange.count is 0..MaxCount
MaxStart == 1          \* drawRange.start is absent or 0..MaxStart
MaxInstances == 2      \* instanceCount is 1..MaxInstances

BytesPerElement == {1, 2, 4}

IndexBuffers ==
  { IndexBuffer(FALSE, 0, 2) } \cup { IndexBuffer(TRUE, n, 2) : n \in 1..MaxLen }

VertexBufferLists ==
  { <<>> }
  \cup { <<VertexBuffer(n * c, w, c * w)>> :
           n \in 1..MaxLen, c \in 1..MaxComponents, w \in BytesPerElement }

DrawRanges ==
  { DrawRange(FALSE, 0, c) : c \in 0..MaxCount }
  \cup { DrawRange(TRUE, f, c) : f \in 0..MaxStart, c \in 0..MaxCount }

DrawGeometries ==
  { Geometry(ib, vbs, dr, ic) :
      ib \in IndexBuffers, vbs \in VertexBufferLists, dr \in DrawRanges,
      ic \in 1..MaxInstances }

DrawInit ==
  /\ nodes = <<Node("Object3D", TRUE, 0, 0, 1, 1), Node("Mesh", TRUE, 1, 0, 1, 1)>>
  /\ materials = <<Material(TRUE, FALSE, 1)>>
  /\ camera = Camera(TRUE, 0 - 1, 1)
  /\ uniformLists = << <<>> >>
  /\ uniforms = EmptyMap
  /\ \E g \in DrawGeometries : geometries = <<g>>
  /\ InitRenderer

DrawSpec == DrawInit /\ [][Render]_vars

(***************************************************************************)
(* The scene for the cache: two visible meshes of one geometry below the   *)
(* scene root.  Material 1 binds a uniform buffer (1), a texture (2) and a *)
(* sampler (3); material 2, of the second mesh, binds the same uniform      *)
(* buffer alone.                                                           *)
(***************************************************************************)
UniformBuffer(byteLength) ==
  [type |-> "buffer", needsUpdate |-> FALSE, value |-> 0, byteOffset |-> 0,
   byteLength |-> byteLength, image |-> FALSE]

Texture(image) ==
  [type |-> "texture", needsUpdate |-> FALSE, value |-> 0, byteOffset |-> 0,
   byteLength |-> 4, image |-> image]

Sampler ==
  [type |-> "sampler", needsUpdate |-> FALSE, value |-> 0, byteOffset |-> 0,
   byteLength |-> 0, image |-> FALSE]

SampleCounts == {1, 4}

Init ==
  /\ nodes = <<Node("Object3D", TRUE, 0, 0, 1, 1), Node("Mesh", TRUE, 1, 0, 1, 1),
              Node("Mesh", TRUE, 1, 1, 2, 1)>>
  /\ materials = <<Material(TRUE, FALSE, 1), Material(TRUE, FALSE, 2)>>
  /\ camera = Camera(TRUE, 0 - 1, 1)
  /\ uniformLists = << <<1, 2, 3>>, <<1>> >>
  /\ uniforms = <<UniformBuffer(32), Texture(TRUE), Sampler>>
  /\ geometries = <<Triangle>>
  /\ InitRenderer

\* The cache keys under which a descriptor's GPU object is looked up get the mark
\* that the descriptor was dirtied since their last lookup.
Mark(k) ==
  IF k \in DOMAIN last THEN [last EXCEPT ![k].marked = TRUE] ELSE last

\* An operation on a descriptor or a setting makes no device call and records
\* nothing.
Touched ==
  /\ frame' = [NoFrame EXCEPT !.op = "set"]
  /\ UNCHANGED device

\* A setter of a material writes the backing store of a uniform buffer and sets
\* its flag (PBRMaterial: albedo, metallic, roughness, occlusion).
WriteUniform(u) ==
  /\ uniforms[u].type = "buffer"
  /\ uniforms' = [uniforms EXCEPT ![u].value = 1,
                                  ![u].needsUpdate = TRUE]
  /\ last' = Mark(Key("uniform", u, 0))
  /\ Touched
  /\ UNCHANGED <<nodes, camera, materials, uniformLists, geometries, renderer,
                 renderList>>

\* The owner of a texture or a sampler sets its needsUpdate flag.
MarkNeedsUpdate(u) ==
  /\ uniforms[u].type # "buffer"
  /\ ~uniforms[u].needsUpdate
  /\ uniforms' = [uniforms EXCEPT ![u].needsUpdate = TRUE]
  /\ last' = Mark(Key("uniform", u, 0))
  /\ Touched
  /\ UNCHANGED <<nodes, camera, materials, uniformLists, geometries, renderer,
                 renderList>>

\* The owner of a material changes its transparency.
SetTransparent(m) ==
  /\ \E n \in DOMAIN nodes : nodes[n].kind = "Mesh" /\ nodes[n].material = m
  /\ materials' = [materials EXCEPT ![m].transparent = ~materials[m].transparent]
  /\ Touched
  /\ UNCHANGED <<nodes, camera, uniformLists, uniforms, geometries, renderer,
                 last, renderList>>

\* renderer.samples = n
SetSamples(n) ==
  /\ renderer.samples # n
  /\ renderer' = [renderer EXCEPT !.samples = n]
  /\ Touched
  /\ UNCHANGED <<nodes, camera, materials, uniformLists, uniforms, geometries,
                 last, renderList>>

Next ==
  \/ Render
  \/ \E u \in DOMAIN uniforms : WriteUniform(u)
  \/ \E u \in DOMAIN uniforms : MarkNeedsUpdate(u)
  \/ \E m \in DOMAIN materials : SetTransparent(m)
  \/ \E n \in SampleCounts : SetSamples(n)

Spec == Init /\ [][Next]_vars

(***************************************************************************)
(* The scene for the targets: one indexed triangle without material        *)
(* uniforms, drawn between changes of the canvas size (1..MaxSize each     *)
(* way) and of the sample count.                                           *)
(***************************************************************************)
MaxSize == 2

TargetInit ==
  /\ nodes = <<Node("Object3D", TRUE, 0, 0, 1, 1), Node("Mesh", TRUE, 1, 0, 1, 1)>>
  /\ materials = <<Material(TRUE, FALSE, 1)>>
  /\ camera = Camera(TRUE, 0 - 1, 1)
  /\ uniformLists = << <<>> >>
  /\ uniforms = EmptyMap
  /\ geometries = <<Triangle>>
  /\ InitRenderer

TargetNext ==
  \/ Render
  \/ \E n \in SampleCounts : SetSamples(n)
  \/ \E w, h \in 1..MaxSize : SetSize(w, h)

TargetSpec == TargetInit /\ [][TargetNext]_vars

(***************************************************************************)
(* The scene for shared bindings: two visible meshes of one geometry and   *)
(* one material, which binds a uniform buffer (1), a texture (2) and a     *)
(* sampler (3); a second texture (4) can take the place of the first.      *)
(***************************************************************************)
ShareInit ==
  /\ nodes = <<Node("Object3D", TRUE, 0, 0, 1, 1), Node("Mesh", TRUE, 1, 0, 1, 1),
              Node("Mesh", TRUE, 1, 1, 1, 1)>>
  /\ materials = <<Material(TRUE, FALSE, 1)>>
  /\ camera = Camera(TRUE, 0 - 1, 1)
  /\ uniformLists = << <<1, 2, 3>> >>
  /\ uniforms = <<UniformBuffer(32), Texture(TRUE), Sampler, Texture(TRUE)>>
  /\ geometries = <<Triangle>>
  /\ InitRenderer

\* The owner of a geometry writes the data of a vertex buffer and sets its flag.
WriteVertexBuffer(g, i) ==
  /\ geometries' = [geometries EXCEPT ![g].vertexBuffers[i].value = 1,
                                      ![g].vertexBuffers[i].needsUpdate = TRUE]
  /\ last' = Mark(Key("vb", g, i))
  /\ Touched
  /\ UNCHANGED <<nodes, camera, materials, uniformLists, uniforms, renderer,
                 renderList>>

\* PBRMaterial's texture setters: the texture at place i of the material's
\* uniform list is replaced by texture u, and the first uniform is flagged.
ReplaceTexture(l, i, u) ==
  /\ uniforms[uniformLists[l][i]].type = "texture"
  /\ uniforms[u].type = "texture"
  /\ uniformLists[l][i] # u
  /\ uniformLists' = [uniformLists EXCEPT ![l][i] = u]
  /\ uniforms' = [uniforms EXCEPT ![uniformLists[l][1]].needsUpdate = TRUE]
  /\ last' = Mark(Key("uniform", uniformLists[l][1], 0))
  /\ Touched
  /\ UNCHANGED <<nodes, camera, materials, geometries, renderer, renderList>>

ShareNext ==
  \/ Render
  \/ \E u \in DOMAIN uniforms : WriteUniform(u)
  \/ \E u \in DOMAIN uniforms : MarkNeedsUpdate(u)
  \/ \E g \in DOMAIN geometries : \E i \in DOMAIN geometries[g].vertexBuffers :
       WriteVertexBuffer(g, i)
  \/ \E l \in DOMAIN uniformLists : \E i \in DOMAIN uniformLists[l] :
       \E u \in DOMAIN uniforms : ReplaceTexture(l, i, u)

ShareSpec == ShareInit /\ [][ShareNext]_vars

(***************************************************************************)
(* Frames that fail: one mesh of the shared scene, where the n-th creation *)
(* of a buffer, texture, sampler, shader module or pipeline of a render    *)
(* call may throw (n up to MaxFailAt).  render has no try, catch or finally:    *)
(* the caller finds the renderer, the descriptors and the device as the    *)
(* statements before the throw left them.  The camera's matrix is updated  *)
(* after the pass has begun.  Nothing is recorded of a frame that failed.  *)
(***************************************************************************)
MaxFailAt == 6

FailInit ==
  /\ nodes = <<Node("Object3D", TRUE, 0, 0, 1, 1), Node("Mesh", TRUE, 1, 0, 1, 1)>>
  /\ materials = <<Material(TRUE, FALSE, 1)>>
  /\ camera = Camera(TRUE, 0 - 1, 1)
  /\ uniformLists = << <<1, 2, 3>> >>
  /\ uniforms = <<UniformBuffer(32), Texture(TRUE), Sampler>>
  /\ geometries = <<Triangle>>
  /\ InitRenderer

renderThrowing(n) == render([Begin EXCEPT !.failAt = n], camera)

RenderFailing(n) ==
  /\ camera.present
  /\ renderThrowing(n).failed
  /\ Kept(Caught(renderThrowing(n)))
  /\ frame' = [NoFrame EXCEPT !.op = "renderFailed", !.failed = TRUE]
  /\ renderList' = <<>>
  /\ camera' = IF Caught(renderThrowing(n)).pass = <<>> THEN camera ELSE sortCamera(camera)
  /\ UNCHANGED <<nodes, materials, uniformLists>>

FailNext ==
  \/ Render
  \/ \E n \in 1..MaxFailAt : RenderFailing(n)
  \/ \E n \in SampleCounts : SetSamples(n)
  \/ \E g \in DOMAIN geometries :
       \E i \in DOMAIN geometries[g].vertexBuffers : WriteVertexBuffer(g, i)

FailSpec == FailInit /\ [][FailNext]_vars

(***************************************************************************)
(* Views: one mesh whose uniform buffer and vertex buffer are typed-array  *)
(* views that start up to MaxViewStart elements into their backing store,  *)
(* so that their byteOffset is that many elements' bytes.                  *)
(***************************************************************************)
MaxViewStart == 1

Float32Bytes == 4

ViewInit ==
  /\ nodes = <<Node("Object3D", TRUE, 0, 0, 1, 1), Node("Mesh", TRUE, 1, 0, 1, 1)>>
  /\ materials = <<Material(TRUE, FALSE, 1)>>
  /\ camera = Camera(TRUE, 0 - 1, 1)
  /\ uniformLists = << <<1>> >>
  /\ \E start \in 0..MaxViewStart :
       uniforms = <<[UniformBuffer(32) EXCEPT !.byteOffset = start * Float32Bytes]>>
  /\ \E start \in 0..MaxViewStart :
       geometries = <<[Triangle EXCEPT !.vertexBuffers[1].byteOffset =
                                         start * Triangle.vertexBuffers[1].bytesPerElement]>>
  /\ InitRenderer

ViewNext ==
  \/ Render
  \/ \E u \in DOMAIN uniforms : WriteUniform(u)
  \/ \E g \in DOMAIN geometries :
       \E i \in DOMAIN geometries[g].vertexBuffers : WriteVertexBuffer(g, i)

ViewSpec == ViewInit /\ [][ViewNext]_vars

(***************************************************************************)
(* Materials that change: the two meshes and two materials of Init, where  *)
(* a mesh is given the other material and a material another shader       *)
(* source (ShaderCodes) between the frames.  Neither is part of the        *)
(* configuration text of the pipeline.                                     *)
(***************************************************************************)
ShaderCodes == {1, 2}

\* mesh.material = m
SetMaterial(n, m) ==
  /\ nodes[n].kind = "Mesh"
  /\ nodes[n].material # m
  /\ nodes' = [nodes EXCEPT ![n].material = m]
  /\ Touched
  /\ UNCHANGED <<camera, materials, uniformLists, uniforms, geometries, renderer,
                 last, renderList>>

\* material.shaderCode = code
SetShaderCode(m, code) ==
  /\ materials[m].shaderCode # code
  /\ materials' = [materials EXCEPT ![m].shaderCode = code]
  /\ Touched
  /\ UNCHANGED <<nodes, camera, uniformLists, uniforms, geometries, renderer,
                 last, renderList>>

MaterialNext ==
  \/ Render
  \/ \E n \in DOMAIN nodes, m \in DOMAIN materials : SetMaterial(n, m)
  \/ \E m \in DOMAIN materials, code \in ShaderCodes : SetShaderCode(m, code)

MaterialSpec == Init /\ [][MaterialNext]_vars

(***************************************************************************)
(* Textures that are replaced: the shared scene between changes of the     *)
(* canvas width and of the sample count and dirty-markings of the texture  *)
(* and the sampler its material binds.                                     *)
(***************************************************************************)
TextureNext ==
  \/ Render
  \/ \E n \in SampleCounts : SetSamples(n)
  \/ \E w \in 1..MaxSize : SetSize(w, renderer.height)
  \/ \E i \in DOMAIN uniformLists[1] : MarkNeedsUpdate(uniformLists[1][i])

TextureSpec == ShareInit /\ [][TextureNext]_vars

(***************************************************************************)
(* Properties of sort.                                                     *)
(***************************************************************************)
Elems(list) == { list[i] : i \in 1..Len(list) }

Pos(list, n) == CHOOSE i \in 1..Len(list) : list[i] = n

Before(list, a, b) == Pos(list, a) < Pos(list, b)

DepthTest(n) == materials[nodes[n].material].depthTest

Transparent(n) == materials[nodes[n].material].transparent

\* The z of the node's world translation through the camera's projection-view matrix.
ProjectedDepth(n) == camera.projectionViewMatrix * nodes[n].z

RECURSIVE Shown(_)
\* The node and all its ancestors up to the scene are visible.
Shown(n) == nodes[n].visible /\ (nodes[n].parent = 0 \/ Shown(nodes[n].parent))

RECURSIVE Under(_, _)
\* Node d is node n or lies below it.
Under(d, n) == d = n \/ (nodes[d].parent # 0 /\ Under(nodes[d].parent, n))

VisibleMeshes == { n \in DOMAIN nodes : nodes[n].kind = "Mesh" /\ Shown(n) }

Sorted == frame.op = "sort"

\* C3 as stated: every mesh with depth-test disabled comes before every mesh
\* with depth-test enabled in the list sort returns.
C3_DisabledFirst ==
  Sorted => \A a, b \in Elems(renderList) :
              (~DepthTest(a) /\ DepthTest(b)) => Before(renderList, a, b)

\* C3, amended: in the list sort returns, every mesh with depth-test enabled
\* comes before every mesh with depth-test disabled, whatever their depth and
\* transparency, with or without a camera.
C3_EnabledFirst ==
  Sorted => \A a, b \in Elems(renderList) :
              (DepthTest(a) /\ ~DepthTest(b)) => Before(renderList, a, b)

\* A sorted list with a camera in which a farther, opaque mesh without depth-test
\* follows a nearer, transparent mesh with depth-test.
C3_Witness ==
  /\ Sorted /\ camera.present
  /\ \E a, b \in Elems(renderList) :
       /\ DepthTest(a) /\ ~DepthTest(b)
       /\ ProjectedDepth(b) > ProjectedDepth(a)
       /\ Transparent(a) /\ ~Transparent(b)
       /\ Before(renderList, a, b)

\* C4: with a camera, of two meshes in the same depth-test tier the one with the
\* greater projected depth comes first; when their depths are equal, or there is
\* no camera, the opaque one comes before the transparent one.
C4_DepthThenOpaque ==
  Sorted => \A a, b \in Elems(renderList) :
              (DepthTest(a) = DepthTest(b)) =>
                /\ (camera.present /\ ProjectedDepth(a) > ProjectedDepth(b))
                     => Before(renderList, a, b)
                /\ ((~camera.present \/ ProjectedDepth(a) = ProjectedDepth(b))
                      /\ ~Transparent(a) /\ Transparent(b))
                     => Before(renderList, a, b)

\* A sorted list with a camera whose first of two same-tier meshes is the farther
\* one although it is transparent, the other opaque, and comes later in the scene.
C4_Witness ==
  /\ Sorted /\ camera.present
  /\ \E a, b \in Elems(renderList) :
       /\ DepthTest(a) = DepthTest(b)
       /\ ProjectedDepth(a) > ProjectedDepth(b)
       /\ Transparent(a) /\ ~Transparent(b)
       /\ a > b
       /\ Before(renderList, a, b)

Sign(x) == IF x > 0 THEN 1 ELSE IF x < 0 THEN 0 - 1 ELSE 0

SameKeys(a, b) ==
  /\ DepthTest(a) = DepthTest(b)
  /\ Transparent(a) = Transparent(b)
  /\ (camera.present => ProjectedDepth(a) = ProjectedDepth(b))

\* C5: the list sort returns holds every collected visible mesh exactly once,
\* the comparator is antisymmetric in sign and transitive on the meshes sorted,
\* and two meshes with the same sort keys keep the order of the traversal.
C5_StableTotal ==
  Sorted =>
    LET ms == Elems(renderList)
        collected == traverse(nodes, 1)
    IN /\ ms = VisibleMeshes
       /\ Len(renderList) = Cardinality(VisibleMeshes)
       /\ \A a, b \in ms :
            Sign(compare(nodes, materials, camera, a, b))
              = 0 - Sign(compare(nodes, materials, camera, b, a))
       /\ \A a, b, c \in ms :
            (compare(nodes, materials, camera, a, b) <= 0
               /\ compare(nodes, materials, camera, b, c) <= 0)
              => compare(nodes, materials, camera, a, c) <= 0
       /\ \A a, b \in ms :
            (SameKeys(a, b) /\ Before(collected, a, b)) => Before(renderList, a, b)

\* A sorted list with two meshes that have the same keys, in traversal order.
C5_Witness ==
  /\ Sorted /\ camera.present /\ Len(renderList) >= 2
  /\ \E i \in 1..(Len(renderList) - 1) :
       /\ SameKeys(renderList[i], renderList[i + 1])
       /\ renderList[i] < renderList[i + 1]
  /\ renderList # traverse(nodes, 1)

Rendered == frame.op = "render"

\* The positions in the pass of the draw calls issued for a mesh.
Draws(mesh) ==
  { i \in DOMAIN frame.pass :
      frame.pass[i].cmd \in {"draw", "drawIndexed"} /\ frame.pass[i].mesh = mesh }

MeshGeometry(mesh) == geometries[nodes[mesh].geometry]

RangeStart(geo) == IF geo.drawRange.hasStart THEN geo.drawRange.start ELSE 0

Indexed(geo) == geo.indexBuffer.present

Positioned(geo) == ~geo.indexBuffer.present /\ Len(geo.vertexBuffers) > 0

\* C7: a mesh with an index buffer of L elements and a draw-range count C gets
\* exactly one draw call in the frame, an indexed one, whose count is the smaller
\* of C and L, with the mesh's instance count, starting at the draw-range start,
\* or at 0 when the draw range has none; for C = L = 3, one instance and start 0
\* the call is (3, 1, 0).
C7_IndexedDraw ==
  Rendered =>
    \A n \in Elems(renderList) :
      LET geo == MeshGeometry(n)
          C == geo.drawRange.count
          L == geo.indexBuffer.length
      IN Indexed(geo) =>
           /\ Cardinality(Draws(n)) = 1
           /\ \A i \in Draws(n) :
                LET d == frame.pass[i]
                IN /\ d.cmd = "drawIndexed"
                   /\ d.countDen = 1
                   /\ d.countNum <= L /\ d.countNum <= C /\ d.countNum \in {C, L}
                   /\ d.instanceCount = geo.instanceCount
                   /\ d.first = RangeStart(geo)
                   /\ (C = 3 /\ L = 3 /\ geo.instanceCount = 1 /\ RangeStart(geo) = 0
                         => <<d.countNum, d.instanceCount, d.first>> = <<3, 1, 0>>)

\* A frame drew an indexed mesh whose draw-range count exceeds its index buffer,
\* with the count of the index buffer.
C7_Witness ==
  /\ Rendered
  /\ \E n \in Elems(renderList) :
       /\ Indexed(MeshGeometry(n))
       /\ MeshGeometry(n).drawRange.count > MeshGeometry(n).indexBuffer.length
       /\ MeshGeometry(n).drawRange.hasStart /\ MeshGeometry(n).drawRange.start > 0
       /\ \E i \in Draws(n) :
            frame.pass[i].countNum = MeshGeometry(n).indexBuffer.length

\* C8: a mesh without an index buffer and with a first vertex buffer gets a
\* non-indexed draw whose vertex count is the smaller of the draw-range count and
\* the byte length of that buffer divided by its stride in bytes, whatever the
\* width of its elements.  The counts are compared as fractions.
C8_ByteLengthOverStride ==
  Rendered =>
    \A n \in Elems(renderList) :
      LET geo == MeshGeometry(n)
          position == geo.vertexBuffers[1]
          byteLength == position.length * position.bytesPerElement
          C == geo.drawRange.count
          fits == C * position.arrayStride <= byteLength
          num == IF fits THEN C ELSE byteLength
          den == IF fits THEN 1 ELSE position.arrayStride
      IN Positioned(geo) =>
           \E i \in Draws(n) :
             /\ frame.pass[i].cmd = "draw"
             /\ frame.pass[i].countNum * den = num * frame.pass[i].countDen

\* C9 as stated: every draw call of the frame, the 3-vertex one of a geometry
\* without buffers included, has the mesh's instance count and starts at the
\* mesh's draw-range start.
C9_AllStartAtOffset ==
  Rendered =>
    \A n \in Elems(renderList) : \A i \in Draws(n) :
      /\ frame.pass[i].instanceCount = MeshGeometry(n).instanceCount
      /\ frame.pass[i].first = RangeStart(MeshGeometry(n))

\* C9: every draw call of the frame has the mesh's instance count; the indexed
\* draw and the draw from a vertex buffer start at the mesh's draw-range start
\* (0 when it has none), the 3-vertex draw of a geometry without buffers starts
\* at 0 whatever the draw range.
C9_InstanceAndStart ==
  Rendered =>
    \A n \in Elems(renderList) :
      LET geo == MeshGeometry(n)
      IN /\ Draws(n) # {}
         /\ \A i \in Draws(n) :
              /\ frame.pass[i].instanceCount = geo.instanceCount
              /\ frame.pass[i].first =
                   IF Indexed(geo) \/ Positioned(geo) THEN RangeStart(geo) ELSE 0
              /\ (~Indexed(geo) /\ ~Positioned(geo)
                     => frame.pass[i].cmd = "draw" /\ frame.pass[i].countNum = 3
                        /\ frame.pass[i].countDen = 1)

\* A frame drew, with several instances, the 3 vertices of a mesh without buffers
\* whose draw range starts above 0.
C9_Witness ==
  /\ Rendered
  /\ \E n \in Elems(renderList) :
       /\ ~Indexed(MeshGeometry(n)) /\ ~Positioned(MeshGeometry(n))
       /\ MeshGeometry(n).drawRange.hasStart /\ MeshGeometry(n).drawRange.start > 0
       /\ MeshGeometry(n).instanceCount > 1
       /\ \E i \in Draws(n) : frame.pass[i].first = 0 /\ frame.pass[i].instanceCount > 1

(***************************************************************************)
(* Properties of the cache, stated of the lookups of the last operation.   *)
(* A lookup that found what the previous lookup of its key returned is the *)
(* second of two consecutive lookups.                                      *)
(***************************************************************************)
Lookups == { frame.lookups[i] : i \in DOMAIN frame.lookups }

Second(e) == e.prevRet # 0

\* The staleness predicate of the key turned true since the previous lookup: the
\* dirty flag of a texture or a sampler was set, the configuration text of a
\* pipeline changed.  Buffers and layouts have no staleness predicate.
StaleMarked(e) == e.marked /\ e.kind \in {"texture", "sampler", "pipeline"}

\* C1 as stated: the second of two consecutive lookups of a descriptor that did
\* not turn stale returns the object of the first, and the creation function ran
\* exactly once in the two lookups together.
C1_CreatedOnceInTwo ==
  \A e \in Lookups :
    Second(e) /\ ~StaleMarked(e) =>
      /\ e.ret = e.prevRet
      /\ Num(e.prevCreated) + Num(e.created) = 1

\* C1: the second of two consecutive lookups of a descriptor that did not turn
\* stale returns the object of the first, which is still the entry, and does not
\* run the creation function: it ran at most once in the two lookups together.
C1_HitReturnsSame ==
  \A e \in Lookups :
    Second(e) /\ ~StaleMarked(e) =>
      /\ e.hadEntry
      /\ e.ret = e.prevRet
      /\ e.stored = e.prevRet
      /\ ~e.created
      /\ Num(e.prevCreated) + Num(e.created) <= 1

\* A lookup returned the object its predecessor had created, and a later one the
\* object its predecessor had itself found in the cache.
C1_Witness ==
  /\ \E e \in Lookups :
       Second(e) /\ ~StaleMarked(e) /\ e.prevCreated /\ e.ret = e.prevRet
  /\ \E e \in Lookups :
       Second(e) /\ ~StaleMarked(e) /\ ~e.prevCreated /\ e.ret = e.prevRet

\* C2: the second of two lookups of a descriptor marked stale in between runs the
\* creation function, returns an object other than the first lookup's and leaves
\* it as the entry; a lookup without such a mark since its predecessor creates
\* nothing.
C2_StaleRecreates ==
  \A e \in Lookups :
    Second(e) =>
      /\ StaleMarked(e) => e.created /\ e.ret # e.prevRet /\ e.stored = e.ret
      /\ ~StaleMarked(e) => ~e.created

\* One frame recreated a sampler, a texture and a pipeline that had turned stale.
C2_Witness ==
  \A kind \in {"texture", "sampler", "pipeline"} :
    \E e \in Lookups :
      e.kind = kind /\ Second(e) /\ StaleMarked(e) /\ e.created /\ e.ret # e.prevRet

\* The uniform buffers the materials of the drawn meshes bind.
BoundUniformBuffers ==
  { u \in DOMAIN uniforms :
      /\ uniforms[u].type = "buffer"
      /\ \E n \in Elems(renderList) :
           \E i \in DOMAIN uniformLists[materials[nodes[n].material].uniforms] :
             uniformLists[materials[nodes[n].material].uniforms][i] = u }

\* The GPU buffer the frame bound for a uniform buffer.
BufferOf(u) ==
  (CHOOSE e \in Lookups : e.key = Key("uniform", u, 0)).ret

\* The queue writes of the frame to a GPU buffer.
WritesTo(buffer) ==
  { i \in DOMAIN frame.log :
      frame.log[i].op = "writeBuffer" /\ frame.log[i].id = buffer }

\* C10: a bound uniform buffer that was dirty when the frame began, the frame that
\* creates its GPU buffer included, gets exactly one queue write in the frame, of
\* the byte range of its value, and is clean when render returns.
C10_OneWritePerDirtyFrame ==
  Rendered =>
    \A u \in BoundUniformBuffers :
      frame.pre.uniforms[u].needsUpdate =>
        /\ Cardinality(WritesTo(BufferOf(u))) = 1
        /\ \A i \in WritesTo(BufferOf(u)) :
             /\ frame.log[i].offset = uniforms[u].byteOffset
             /\ frame.log[i].size = uniforms[u].byteLength
        /\ ~uniforms[u].needsUpdate

(***************************************************************************)
(* Properties of the pipelines of a frame.                                 *)
(***************************************************************************)
Fingerprint(mesh) == JSONStringify(pipelineOption(Begin, mesh))

\* The pipeline bound for the draw of a mesh.
BoundPipeline(mesh) ==
  frame.pass[CHOOSE i \in DOMAIN frame.pass :
               frame.pass[i].cmd = "setPipeline" /\ frame.pass[i].mesh = mesh].obj

PipelinesCreated ==
  { i \in DOMAIN frame.log : frame.log[i].op = "createRenderPipeline" }

Operated == frame.op \in {"constructor", "setSize", "render"}

Textures == { id \in DOMAIN frame.objects : frame.objects[id].kind = "texture" }

\* The positions in the log of the calls of an operation on an object.
Calls(op, id) ==
  { i \in DOMAIN frame.log : frame.log[i].op = op /\ frame.log[i].id = id }

\* The textures that exist and are not destroyed when call j of the log is made.
LiveBefore(j) ==
  { id \in Textures :
      /\ \A i \in Calls("createTexture", id) : i < j
      /\ \A i \in Calls("destroy", id) : i >= j }

\* C12: after the constructor, a setSize call or a render call the renderer holds
\* two distinct targets, the only textures not destroyed; whenever a target was
\* created, the one it replaces had been destroyed (one target at most, the other
\* one, was alive); the targets have the size of the canvas, so that setSize with
\* the size the canvas already has leaves targets of the dimensions they had.
C12_OneLiveTargetEach ==
  Operated =>
    /\ frame.msaaTexture # frame.depthTexture
    /\ { id \in Textures : ~frame.objects[id].destroyed }
         = {frame.msaaTexture, frame.depthTexture}
    /\ \A j \in DOMAIN frame.log :
         frame.log[j].op = "createTexture" => Cardinality(LiveBefore(j)) <= 1
    /\ \A t \in {frame.msaaTexture, frame.depthTexture} :
         /\ frame.objects[t].width = renderer.width
         /\ frame.objects[t].height = renderer.height
    /\ \A t \in {renderer.msaaTexture, renderer.depthTexture} :
         /\ ~device.objects[t].destroyed
         /\ device.objects[t].width = renderer.width
         /\ device.objects[t].height = renderer.height

\* setSize was called with the size the canvas already had, after an earlier
\* change of the size, and replaced both targets.
C12_Witness ==
  /\ frame.op = "setSize"
  /\ frame.pre.width = renderer.width /\ frame.pre.height = renderer.height
  /\ renderer.width > 1
  /\ Cardinality({ id \in Textures : frame.objects[id].destroyed }) = 2
  /\ Cardinality({ j \in DOMAIN frame.log : frame.log[j].op = "createTexture" }) = 2

\* C16: when the pass of a frame begins, its colour and depth attachments are
\* the renderer's two targets, not destroyed and with the configured sample
\* count, and every pipeline bound in the pass has that multisample count.
C16_SampleCountsAgree ==
  Rendered =>
    /\ frame.pass[1].cmd = "beginRenderPass"
    /\ frame.pass[1].obj = frame.msaaTexture
    /\ frame.pass[1].slot = frame.depthTexture
    /\ \A t \in {frame.msaaTexture, frame.depthTexture} :
         /\ frame.objects[t].sampleCount = renderer.samples
         /\ ~frame.objects[t].destroyed
    /\ \A i \in DOMAIN frame.pass :
         frame.pass[i].cmd = "setPipeline" =>
           frame.objects[frame.pass[i].obj].sampleCount = renderer.samples

\* A frame found the sample count changed: it replaced the targets and the
\* pipeline of a mesh it had drawn before.
C16_Witness ==
  /\ Rendered
  /\ renderer.samples # DefaultSamples
  /\ Cardinality({ j \in DOMAIN frame.log : frame.log[j].op = "createTexture" }) = 2
  /\ \E e \in Lookups : e.kind = "pipeline" /\ Second(e) /\ e.created

(***************************************************************************)
(* The life cycle of a frame.                                              *)
(***************************************************************************)
LogOf(op) == { i \in DOMAIN frame.log : frame.log[i].op = op }

PassOf(cmd) == { i \in DOMAIN frame.pass : frame.pass[i].cmd = cmd }

\* C13: a render call that returns has created one command encoder, begun one
\* pass as the first command, ended it once as the last command, so that every
\* binding and draw lies between the two, and submitted once, as the last call
\* on the device and with the ended pass: the frame went from begin through
\* recording and end to submission, each once and in that order, and a frame
\* that began was submitted when render returned.
C13_FrameLifeCycle ==
  Rendered =>
    /\ Cardinality(LogOf("createCommandEncoder")) = 1
    /\ Cardinality(LogOf("submit")) = 1
    /\ LogOf("submit") = {Len(frame.log)}
    /\ \A i \in LogOf("createCommandEncoder") : i < Len(frame.log)
    /\ PassOf("beginRenderPass") = {1}
    /\ PassOf("end") = {Len(frame.pass)}
    /\ Len(frame.pass) > 1
    /\ frame.log[Len(frame.log)].size = Len(frame.pass)

\* A frame of two draws whose uniform data was written to the queue between
\* the creation of the encoder and the submission.
C13_Witness ==
  /\ Rendered
  /\ Cardinality(PassOf("drawIndexed")) = 2
  /\ Cardinality(PassOf("setBindGroup")) = 2
  /\ \E i \in LogOf("createCommandEncoder"), j \in LogOf("writeBuffer") :
       i < j /\ j < Len(frame.log)

(***************************************************************************)
(* Textures and vertex buffers over the frames.                            *)
(***************************************************************************)
\* The positions, in the lookups of the frame, of the lookups of a key.
LookupsOf(k) == { i \in DOMAIN frame.lookups : frame.lookups[i].key = k }

Creations(k) == { i \in LookupsOf(k) : frame.lookups[i].created }

FirstLookup(k) == frame.lookups[CHOOSE i \in LookupsOf(k) : \A j \in LookupsOf(k) : i <= j]

BoundTextures ==
  { u \in DOMAIN uniforms :
      uniforms[u].type = "texture" /\ LookupsOf(Key("uniform", u, 0)) # {} }

\* C17: a frame that finds a cached texture dirty destroys the cached GPU
\* texture before it creates the one replacing it, creates one texture for the
\* binding however many meshes bind it, and leaves the flag false; a cached
\* texture that is not dirty is returned as it is, and a frame creates as many
\* textures as it binds textures that are dirty or not cached yet.
C17_DirtyTextureReplacedOnce ==
  Rendered =>
    /\ \A u \in BoundTextures :
         LET k == Key("uniform", u, 0)
             e == FirstLookup(k)
         IN /\ ~uniforms[u].needsUpdate
            /\ ~frame.objects[e.ret].destroyed
            /\ \A i \in LookupsOf(k) : frame.lookups[i].ret = e.ret
            /\ Creations(k) \subseteq { i \in LookupsOf(k) : frame.lookups[i] = e }
            /\ e.hadEntry /\ frame.pre.uniforms[u].needsUpdate =>
                 /\ Cardinality(Creations(k)) = 1
                 /\ e.ret # e.prevRet
                 /\ frame.objects[e.prevRet].destroyed
                 /\ Cardinality(Calls("createTexture", e.ret)) = 1
                 /\ Cardinality(Calls("destroy", e.prevRet)) = 1
                 /\ \A d \in Calls("destroy", e.prevRet), c \in Calls("createTexture", e.ret) :
                      d < c
            /\ e.hadEntry /\ ~frame.pre.uniforms[u].needsUpdate =>
                 /\ Creations(k) = {}
                 /\ e.ret = e.prevRet
                 /\ Calls("createTexture", e.ret) = {}
            /\ ~e.hadEntry => Cardinality(Creations(k)) = 1
    /\ Cardinality(LogOf("createTexture"))
         = Cardinality({ u \in BoundTextures :
                           \/ frame.pre.uniforms[u].needsUpdate
                           \/ Key("uniform", u, 0) \notin frame.pre.cached })

\* Two meshes bind a texture that was cached and dirty: the frame replaced it.
C17_Witness ==
  /\ Rendered
  /\ \E u \in BoundTextures :
       /\ Key("uniform", u, 0) \in frame.pre.cached
       /\ frame.pre.uniforms[u].needsUpdate
       /\ Cardinality(LookupsOf(Key("uniform", u, 0))) = 2
       /\ Cardinality(Creations(Key("uniform", u, 0))) = 1
       /\ Calls("destroy", FirstLookup(Key("uniform", u, 0)).prevRet) # {}

BoundVertexBuffers ==
  { gi \in { <<g, i>> : g \in DOMAIN geometries, i \in 1..MaxLen } :
      LookupsOf(Key("vb", gi[1], gi[2])) # {} }

\* C18: a frame that finds the GPU buffer of a vertex buffer cached creates no
\* buffer for it and writes the existing one once when the flag is set, not at
\* all when it is not; the frame that creates the GPU buffer uploads the data
\* once; the flag is false after the frame and the GPU buffer holds the data.
C18_VertexBufferWrittenInPlace ==
  Rendered =>
    \A gi \in BoundVertexBuffers :
      LET k == Key("vb", gi[1], gi[2])
          e == FirstLookup(k)
          dirty == frame.pre.geometries[gi[1]].vertexBuffers[gi[2]].needsUpdate
      IN /\ ~geometries[gi[1]].vertexBuffers[gi[2]].needsUpdate
         /\ \A i \in LookupsOf(k) : frame.lookups[i].ret = e.ret
         /\ frame.objects[e.ret].data = geometries[gi[1]].vertexBuffers[gi[2]].value
         /\ e.hadEntry =>
              /\ Creations(k) = {}
              /\ e.ret = e.prevRet
              /\ Cardinality(WritesTo(e.ret)) = (IF dirty THEN 1 ELSE 0)
         /\ ~e.hadEntry =>
              /\ Cardinality(Creations(k)) = 1
              /\ Cardinality(WritesTo(e.ret)) = 1

\* Two meshes draw from a vertex buffer whose GPU buffer was cached and whose
\* data was changed: the frame wrote the cached buffer once.
C18_Witness ==
  /\ Rendered
  /\ \E gi \in BoundVertexBuffers :
       /\ Key("vb", gi[1], gi[2]) \in frame.pre.cached
       /\ frame.pre.geometries[gi[1]].vertexBuffers[gi[2]].needsUpdate
       /\ Cardinality(LookupsOf(Key("vb", gi[1], gi[2]))) = 2
       /\ Cardinality(WritesTo(FirstLookup(Key("vb", gi[1], gi[2])).ret)) = 1
       /\ frame.objects[FirstLookup(Key("vb", gi[1], gi[2])).ret].data = 1

(***************************************************************************)
(* The pipeline of a mesh over the frames.                                 *)
(***************************************************************************)
\* C15: the pipeline bound for the draw of a mesh is labelled with the
\* configuration text the mesh has in that frame; a frame that finds a pipeline
\* cached for the mesh creates one when the label of the cached pipeline differs
\* from the text, and none when it is the same.
C15_PipelineFollowsFingerprint ==
  Rendered =>
    \A mesh \in Elems(renderList) :
      LET k == Key("mesh", mesh, 0)
          e == FirstLookup(k)
      IN /\ Cardinality(LookupsOf(k)) = 1
         /\ BoundPipeline(mesh) = e.ret
         /\ frame.objects[e.ret].kind = "pipeline"
         /\ frame.objects[e.ret].label = Fingerprint(mesh)
         /\ e.hadEntry =>
              /\ e.created <=> frame.objects[e.prevRet].label # Fingerprint(mesh)
              /\ ~e.created => e.ret = e.prevRet
         /\ Cardinality(PipelinesCreated)
              = Cardinality({ m \in Elems(renderList) :
                                FirstLookup(Key("mesh", m, 0)).created })

\* One frame drew a mesh whose configuration had changed since its pipeline was
\* made, and a mesh whose configuration had not.
C15_Witness ==
  /\ Rendered
  /\ \E a, b \in Elems(renderList) :
       /\ FirstLookup(Key("mesh", a, 0)).hadEntry
       /\ FirstLookup(Key("mesh", a, 0)).created
       /\ FirstLookup(Key("mesh", b, 0)).hadEntry
       /\ ~FirstLookup(Key("mesh", b, 0)).created
  /\ Cardinality(PipelinesCreated) = 1

(***************************************************************************)
(* The bind group of a mesh and the uniforms of its material.              *)
(***************************************************************************)
\* The bind group command recorded for the draw of a mesh.
BindGroupOf(mesh) ==
  frame.pass[CHOOSE i \in DOMAIN frame.pass :
               frame.pass[i].cmd = "setBindGroup" /\ frame.pass[i].mesh = mesh]

\* C19 as stated: in every frame the bind group of a drawn mesh refers, binding
\* by binding behind the base block, to the GPU resource the frame looked up
\* for the uniform the material's list holds at that binding now, and a uniform
\* buffer of the list holds on the GPU the value its CPU data has.
C19_BindGroupFollowsUniforms ==
  Rendered =>
    \A mesh \in Elems(renderList) :
      LET list == uniformLists[materials[nodes[mesh].material].uniforms]
      IN \A i \in DOMAIN list :
           LET k == Key("uniform", list[i], 0)
           IN /\ LookupsOf(k) # {}
              /\ BindGroupOf(mesh).entries[i + 1] = FirstLookup(k).ret
              /\ uniforms[list[i]].type = "buffer" =>
                   frame.objects[FirstLookup(k).ret].data = uniforms[list[i]].value

\* C20 as stated: when the submitted commands of a frame execute, after every
\* queue write of the frame, the base uniform block bound for the draw of a mesh
\* holds the matrices of that mesh.
C20_OwnMatricesPerDraw ==
  Rendered =>
    \A mesh \in Elems(renderList) :
      frame.objects[BindGroupOf(mesh).entries[1]].data = mesh

(***************************************************************************)
(* Frames after a failed frame.                                            *)
(***************************************************************************)
\* The GPU objects the commands of the frame refer to.
Referenced ==
  UNION { {frame.pass[i].obj} \cup Elems(frame.pass[i].entries) :
            i \in { j \in DOMAIN frame.pass :
                      frame.pass[j].cmd \in {"setPipeline", "setBindGroup", "setIndexBuffer",
                                            "setVertexBuffer"} } }

\* C14 as stated: whatever frames failed before it, a render call that fails
\* nowhere leaves nothing missing and nothing pending: the pass is begun on two
\* targets that are not destroyed and have the configured sample count, no
\* command refers to a destroyed object, and every bound texture, uniform buffer
\* and vertex buffer is clean and holds on the GPU the data it has on the CPU.
C14_NextFrameRepairs ==
  Rendered =>
    /\ \A t \in {frame.pass[1].obj, frame.pass[1].slot} :
         /\ ~frame.objects[t].destroyed
         /\ frame.objects[t].sampleCount = renderer.samples
    /\ \A id \in Referenced \ {0} : ~frame.objects[id].destroyed
    /\ \A u \in DOMAIN uniforms :
         LookupsOf(Key("uniform", u, 0)) # {} /\ uniforms[u].type # "sampler" =>
           /\ ~uniforms[u].needsUpdate
           /\ frame.objects[FirstLookup(Key("uniform", u, 0)).ret].data = uniforms[u].value
    /\ \A gi \in BoundVertexBuffers :
         /\ ~geometries[gi[1]].vertexBuffers[gi[2]].needsUpdate
         /\ frame.objects[FirstLookup(Key("vb", gi[1], gi[2])).ret].data
              = geometries[gi[1]].vertexBuffers[gi[2]].value

(***************************************************************************)
(* Queue writes and the size of the buffer written.                        *)
(***************************************************************************)
\* C21 as stated: every queue write of a frame ends inside the GPU buffer it
\* writes: its offset plus its byte length is at most the size the buffer was
\* created with.
C21_WritesInsideBuffer ==
  Rendered =>
    \A i \in LogOf("writeBuffer") :
      frame.log[i].offset + frame.log[i].size <= frame.objects[frame.log[i].id].size

(***************************************************************************)
(* The layouts of the pipeline and of the bind group of a draw.            *)
(***************************************************************************)
\* C22 as stated: for every draw of a frame, the bind group layout the bound
\* pipeline was created with is the bind group layout the bind group set for
\* the draw was created from.
C22_PipelineLayoutIsBindGroupLayout ==
  Rendered =>
    \A mesh \in Elems(renderList) :
      frame.objects[BoundPipeline(mesh)].layout
        = frame.objects[BindGroupOf(mesh).obj].layout

(***************************************************************************)
(* Destroyed textures.  A view is named by the texture it is a view of.    *)
(***************************************************************************)
Attachments == {frame.pass[1].obj, frame.pass[1].slot}

BindGroupEntries ==
  UNION { Elems(frame.pass[i].entries) : i \in PassOf("setBindGroup") }

Destroyed == { id \in DOMAIN frame.objects : frame.objects[id].destroyed }

\* C23: when a render call returns, after every destruction the frame made, the
\* two attachments of its pass are textures that are not destroyed, and no entry
\* of a bind group set in the pass is a destroyed object.
C23_NoDestroyedTextureInFrame ==
  Rendered =>
    /\ \A t \in Attachments :
         frame.objects[t].kind = "texture" /\ t \notin Destroyed
    /\ BindGroupEntries \cap Destroyed = {}

\* A frame replaced both targets after a change of the sample count and a dirty
\* texture that two meshes bind, at a canvas size setSize had set.
C23_Witness ==
  /\ Rendered
  /\ renderer.width > 1
  /\ Cardinality(LogOf("createTexture")) = 3
  /\ Cardinality(Destroyed) = 3
  /\ Cardinality(PassOf("setBindGroup")) = 2
  /\ \E id \in BindGroupEntries : frame.objects[id].kind = "texture"

====
